---- MODULE Spec2Model ----
(***************************************************************************)
(* Model of scripts/transform_colors.py: the line rewriter that retouches  *)
(* the colours of CartoCSS .mss files.  Text is modelled as strings, the   *)
(* regular expressions of the script as node sequences matched by a        *)
(* backtracking matcher with Python's greedy semantics, colours decoded    *)
(* from hex as 8-bit channel triples, and colours computed by the HSL      *)
(* adjustment functions as terms over those.                               *)
(***************************************************************************)
EXTENDS Integers, Sequences, FiniteSets, TLC

(***************************************************************************)
(* Characters and character classes of Python's re module.                 *)
(***************************************************************************)
At(s, i) == SubSeq(s, i, i)

\* Body with v bound to the value e: a local name of the script
Let(e, Body(_)) == Body(e)

\* s[a-1:b] of Python: the characters a..b of s, cut at the end of s
Slice(s, a, b) ==
    IF a > b \/ a > Len(s) THEN "" ELSE SubSeq(s, a, IF b > Len(s) THEN Len(s) ELSE b)

Digit == {"0", "1", "2", "3", "4", "5", "6", "7", "8", "9"}

LowerCase == {"a", "b", "c", "d", "e", "f", "g", "h", "i", "j", "k", "l", "m",
              "n", "o", "p", "q", "r", "s", "t", "u", "v", "w", "x", "y", "z"}

UpperCase == {"A", "B", "C", "D", "E", "F", "G", "H", "I", "J", "K", "L", "M",
              "N", "O", "P", "Q", "R", "S", "T", "U", "V", "W", "X", "Y", "Z"}

Letter == LowerCase \cup UpperCase

\* \w
WordChar == Letter \cup Digit \cup {"_"}

\* \s
Space == {" ", "\t", "\n", "\r", "\f"}

\* [\da-fA-F]
HexDigit == Digit \cup {"a", "b", "c", "d", "e", "f", "A", "B", "C", "D", "E", "F"}

(***************************************************************************)
(* Regular expression nodes.  Every pattern of the script is a flat        *)
(* sequence of: one character of a class, a greedy + or * over a class,    *)
(* the opening and closing of a capturing group, \b, and a negative        *)
(* lookahead for a literal.                                                *)
(***************************************************************************)
Node(type, c, neg, n, sub) == [t |-> type, c |-> c, neg |-> neg, n |-> n, sub |-> sub]

Lit(ch) == Node("one", {ch}, FALSE, 0, "")

OneOf(S) == Node("one", S, FALSE, 0, "")

Plus(S) == Node("plus", S, FALSE, 0, "")

PlusNot(S) == Node("plus", S, TRUE, 0, "")

Star(S) == Node("star", S, FALSE, 0, "")

Open(n) == Node("open", {}, FALSE, n, "")

Close(n) == Node("close", {}, FALSE, n, "")

WordB == Node("wordb", {}, FALSE, 0, "")

NotAhead(w) == Node("nla", {}, FALSE, 0, w)

\* . matches every character but the newline
Dot == {"\n"}

Word(w) == [i \in 1..Len(w) |-> Lit(At(w, i))]

InClass(node, ch) == (ch \in node.c) # node.neg

IsWordAt(s, i) == i >= 1 /\ i <= Len(s) /\ At(s, i) \in WordChar

\* \b between s[i-1] and s[i]
Boundary(s, i) == IsWordAt(s, i - 1) # IsWordAt(s, i)

RECURSIVE RunEnd(_, _, _)
\* the position after the longest run of characters of node's class from i
RunEnd(node, s, i) ==
    IF i <= Len(s) /\ InClass(node, At(s, i)) THEN RunEnd(node, s, i + 1) ELSE i

NoGroups == [n \in 1..3 |-> <<0, 0>>]

NoMatch == [ok |-> FALSE, s |-> 0, e |-> 0, g |-> NoGroups]

RECURSIVE MatchFrom(_, _, _, _, _, _)
RECURSIVE Backtrack(_, _, _, _, _, _, _)
\* the nodes re[k..] matched at position i of s, the match having started at
\* position b: the matches in Python's backtracking order, the first being
\* the one re finds
MatchFrom(re, k, s, b, i, g) ==
    IF k > Len(re) THEN <<[ok |-> TRUE, s |-> b, e |-> i, g |-> g]>>
    ELSE CASE re[k].t = "one" ->
                 IF i <= Len(s) /\ InClass(re[k], At(s, i))
                 THEN MatchFrom(re, k + 1, s, b, i + 1, g)
                 ELSE <<>>
           [] re[k].t = "plus" -> Backtrack(re, k, s, b, RunEnd(re[k], s, i), i + 1, g)
           [] re[k].t = "star" -> Backtrack(re, k, s, b, RunEnd(re[k], s, i), i, g)
           [] re[k].t = "open" ->
                 MatchFrom(re, k + 1, s, b, i, [g EXCEPT ![re[k].n] = <<i, 0>>])
           [] re[k].t = "close" ->
                 MatchFrom(re, k + 1, s, b, i, [g EXCEPT ![re[k].n] = <<@[1], i>>])
           [] re[k].t = "wordb" ->
                 IF Boundary(s, i) THEN MatchFrom(re, k + 1, s, b, i, g) ELSE <<>>
           [] re[k].t = "nla" ->
                 IF Slice(s, i, i + Len(re[k].sub) - 1) = re[k].sub
                 THEN <<>>
                 ELSE MatchFrom(re, k + 1, s, b, i, g)

\* a greedy repetition gives back one character at a time, from hi down to lo
Backtrack(re, k, s, b, hi, lo, g) ==
    IF hi < lo THEN <<>>
    ELSE MatchFrom(re, k + 1, s, b, hi, g) \o Backtrack(re, k, s, b, hi - 1, lo, g)

\* the first of the matches ms, or NoMatch
First(ms) == Head(ms \o <<NoMatch>>)

\* re.match(pattern, s)
re_match(re, s) == First(MatchFrom(re, 1, s, 1, 1, NoGroups))

RECURSIVE SearchFrom(_, _, _)
\* the matches of re in s starting at position i or later, leftmost first
SearchFrom(re, s, i) ==
    IF i > Len(s) + 1 THEN <<>>
    ELSE MatchFrom(re, 1, s, i, i, NoGroups) \o SearchFrom(re, s, i + 1)

\* re.search(pattern, s)
re_search(re, s) == First(SearchFrom(re, s, 1))

\* match.group(n); group 0 is the whole match
Group(m, s, n) ==
    IF n = 0 THEN Slice(s, m.s, m.e - 1) ELSE Slice(s, m.g[n][1], m.g[n][2] - 1)

RECURSIVE NonOverlapping(_, _)
\* of the matches ms, leftmost first, those re.sub visits: each the first
\* that starts at or after position i, the end of the one before
NonOverlapping(ms, i) ==
    IF ms = <<>> THEN <<>>
    ELSE IF ms[1].s < i THEN NonOverlapping(Tail(ms), i)
    ELSE <<ms[1]>> \o NonOverlapping(Tail(ms), ms[1].e)

\* the non-overlapping matches of re in s from position i, left to right
FindAll(re, s, i) == NonOverlapping(SearchFrom(re, s, i), i)

(***************************************************************************)
(* The patterns of the script.                                             *)
(***************************************************************************)
\* VARIABLE = r'@[\w\-_]+'
VARIABLE_REF == <<Lit("@"), Plus(WordChar \cup {"-"})>>

\* r'\s*(@[\w\-_]+)\s*:(.+);'
VARIABLE_DEF ==
    <<Star(Space), Open(1), Lit("@"), Plus(WordChar \cup {"-"}), Close(1),
      Star(Space), Lit(":"), Open(2), PlusNot(Dot), Close(2), Lit(";")>>

\* r'#[\da-fA-F]+\b'
HEX_COLOR == <<Lit("#"), Plus(HexDigit), WordB>>

\* r'\b(?!mix)(\w+)\((.+),\s*(.+)%\s*\)'
FUNCTION ==
    <<WordB, NotAhead("mix"), Open(1), Plus(WordChar), Close(1), Lit("("),
      Open(2), PlusNot(Dot), Close(2), Lit(","), Star(Space),
      Open(3), PlusNot(Dot), Close(3), Lit("%"), Star(Space), Lit(")")>>

\* \w+\([^\(\)]+\)
InnerCall == <<Plus(WordChar), Lit("("), PlusNot({"(", ")"}), Lit(")")>>

\* r'\bmix\((\w+\([^\(\)]+\)),\s*(\w+\([^\(\)]+\)),\s*(.+)%\s*\)'
MIX_FUNCTION ==
    <<WordB>> \o Word("mix(") \o <<Open(1)>> \o InnerCall \o <<Close(1), Lit(","), Star(Space)>>
    \o <<Open(2)>> \o InnerCall \o <<Close(2), Lit(","), Star(Space)>>
    \o <<Open(3), PlusNot(Dot), Close(3), Lit("%"), Star(Space), Lit(")")>>

\* r'rgba\(.+\)'
RGBA == Word("rgba(") \o <<PlusNot(Dot), Lit(")")>>

\* r'[A-Za-z]+'
NAMED_COLOR == <<Plus(Letter)>>

\* \s*d\s*,
Fixed(d) == <<Star(Space), Lit(d), Star(Space), Lit(",")>>

\* r'scale-hsla\(\s*0\s*,\s*1\s*,\s*0\s*,\s*1\s*,\s*([\d\.]+)\s*,\s*([\d\.]+)\s*,\s*0\s*,\s*1\s*\)'
SCALE_L ==
    Word("scale-hsla(") \o Fixed("0") \o Fixed("1") \o Fixed("0") \o Fixed("1")
    \o <<Star(Space), Open(1), Plus(Digit \cup {"."}), Close(1), Star(Space), Lit(","),
         Star(Space), Open(2), Plus(Digit \cup {"."}), Close(2), Star(Space), Lit(",")>>
    \o Fixed("0") \o <<Star(Space), Lit("1"), Star(Space), Lit(")")>>

(***************************************************************************)
(* Python's str and number conversions.                                    *)
(***************************************************************************)
RECURSIVE LStrip(_)
LStrip(s) == IF Len(s) > 0 /\ Head(s) \in Space THEN LStrip(Tail(s)) ELSE s

RECURSIVE RStrip(_)
RStrip(s) ==
    IF Len(s) > 0 /\ At(s, Len(s)) \in Space THEN RStrip(SubSeq(s, 1, Len(s) - 1)) ELSE s

\* str.strip()
strip(s) == RStrip(LStrip(s))

DigitVal(ch) ==
    CASE ch = "0" -> 0 [] ch = "1" -> 1 [] ch = "2" -> 2 [] ch = "3" -> 3 [] ch = "4" -> 4
      [] ch = "5" -> 5 [] ch = "6" -> 6 [] ch = "7" -> 7 [] ch = "8" -> 8 [] ch = "9" -> 9
      [] ch \in {"a", "A"} -> 10 [] ch \in {"b", "B"} -> 11 [] ch \in {"c", "C"} -> 12
      [] ch \in {"d", "D"} -> 13 [] ch \in {"e", "E"} -> 14 [] ch \in {"f", "F"} -> 15

DigitChar(d) == At("0123456789abcdef", d + 1)

RECURSIVE DigitsVal(_, _)
\* the value of a string of decimal digits, read after the digits of acc
DigitsVal(s, acc) ==
    IF s = "" THEN acc ELSE DigitsVal(Tail(s), 10 * acc + DigitVal(Head(s)))

RECURSIVE DropUnderscores(_)
\* int() accepts single underscores between digits
DropUnderscores(s) ==
    IF Len(s) >= 3 /\ At(s, 2) = "_" /\ Head(s) \in Digit /\ At(s, 3) \in Digit
    THEN Head(s) \o DropUnderscores(SubSeq(s, 3, Len(s)))
    ELSE IF s = "" THEN "" ELSE Head(s) \o DropUnderscores(Tail(s))

AllIn(s, S) == \A i \in 1..Len(s) : At(s, i) \in S

\* the digits of int(u), u stripped, after its sign
Unsigned(u) ==
    DropUnderscores(IF Len(u) > 0 /\ Head(u) \in {"-", "+"} THEN Tail(u) ELSE u)

\* int(s) of a str: [ok |-> FALSE] stands for ValueError
PyInt(s) ==
    Let(strip(s), LAMBDA u :
    Let(Unsigned(u), LAMBDA body :
        IF body # "" /\ AllIn(body, Digit)
        THEN [ok |-> TRUE,
              v |-> IF Head(u) = "-" THEN 0 - DigitsVal(body, 0) ELSE DigitsVal(body, 0)]
        ELSE [ok |-> FALSE, v |-> 0]))

RECURSIVE Pow10(_)
Pow10(n) == IF n = 0 THEN 1 ELSE 10 * Pow10(n - 1)

RECURSIVE IndexOf(_, _, _)
\* the first position of ch in s at i or later, 0 when there is none
IndexOf(s, ch, i) ==
    IF i > Len(s) THEN 0 ELSE IF At(s, i) = ch THEN i ELSE IndexOf(s, ch, i + 1)

\* float(s) of a str of the class [\d\.]+, as the fraction num/den;
\* [ok |-> FALSE] stands for ValueError
PyFloat(s) ==
    Let(IndexOf(s, ".", 1), LAMBDA dot :
    Let(IF dot = 0 THEN s ELSE Slice(s, 1, dot - 1), LAMBDA ip :
    Let(IF dot = 0 THEN "" ELSE Slice(s, dot + 1, Len(s)), LAMBDA fp :
        IF AllIn(ip, Digit) /\ AllIn(fp, Digit) /\ ip \o fp # ""
        THEN [ok |-> TRUE, num |-> DigitsVal(ip \o fp, 0), den |-> Pow10(Len(fp))]
        ELSE [ok |-> FALSE, num |-> 0, den |-> 1])))

RECURSIVE NatToStr(_)
NatToStr(n) == IF n < 10 THEN DigitChar(n) ELSE NatToStr(n \div 10) \o DigitChar(n % 10)

\* str(n) of an int
IntToStr(n) == IF n < 0 THEN "-" \o NatToStr(0 - n) ELSE NatToStr(n)

(***************************************************************************)
(* The result x of scipy's minimize is a float the model does not compute: *)
(* it is drawn from OptValues, in tenths.                                  *)
(***************************************************************************)
\* round(float(x)): Python rounds a half to the even integer
PyRound(tenths) ==
    IF tenths % 10 < 5 THEN tenths \div 10
    ELSE IF tenths % 10 > 5 THEN tenths \div 10 + 1
    ELSE IF (tenths \div 10) % 2 = 0 THEN tenths \div 10 ELSE tenths \div 10 + 1

\* f'{x:.2}' of a float with one decimal digit and |x| < 10
FormatDot2(tenths) ==
    IF tenths < 0
    THEN "-" \o NatToStr((0 - tenths) \div 10) \o "." \o DigitChar((0 - tenths) % 10)
    ELSE NatToStr(tenths \div 10) \o "." \o DigitChar(tenths % 10)

(***************************************************************************)
(* Colours.  A colour decoded from hex is [k |-> "rgb"] with 8-bit         *)
(* channels; t_rgb and the HSL adjustments build terms over it.            *)
(***************************************************************************)
RGB(r, g, b) == [k |-> "rgb", r |-> r, g |-> g, b |-> b]

\* floor(0.5 + 255 * t(v / 255)) for v = 0..255, t as the script defines it
T8 == <<
     17,  17,  17,  17,  17,  17,  18,  18,  18,  18,  18,  19,  19,  19,  19,  20,
     20,  20,  21,  21,  21,  22,  22,  22,  23,  23,  24,  24,  24,  25,  25,  26,
     26,  27,  27,  28,  28,  29,  29,  30,  30,  31,  31,  32,  32,  33,  33,  34,
     35,  35,  36,  36,  37,  38,  38,  39,  40,  40,  41,  42,  42,  43,  44,  44,
     45,  46,  46,  47,  48,  48,  49,  50,  51,  51,  52,  53,  54,  55,  55,  56,
     57,  58,  59,  59,  60,  61,  62,  63,  63,  64,  65,  66,  67,  68,  69,  70,
     70,  71,  72,  73,  74,  75,  76,  77,  78,  79,  80,  81,  81,  82,  83,  84,
     85,  86,  87,  88,  89,  90,  91,  92,  93,  94,  95,  96,  97,  98, 100, 101,
    102, 103, 104, 105, 106, 107, 108, 109, 110, 111, 112, 114, 115, 116, 117, 118,
    119, 120, 121, 123, 124, 125, 126, 127, 128, 130, 131, 132, 133, 134, 136, 137,
    138, 139, 140, 142, 143, 144, 145, 147, 148, 149, 150, 152, 153, 154, 155, 157,
    158, 159, 160, 162, 163, 164, 166, 167, 168, 170, 171, 172, 174, 175, 176, 178,
    179, 180, 182, 183, 184, 186, 187, 188, 190, 191, 193, 194, 195, 197, 198, 200,
    201, 202, 204, 205, 207, 208, 210, 211, 213, 214, 215, 217, 218, 220, 221, 223,
    224, 226, 227, 229, 230, 232, 233, 235, 236, 238, 239, 241, 242, 244, 245, 247,
    248, 248, 249, 249, 250, 250, 251, 251, 252, 252, 253, 253, 254, 254, 255, 255 >>

\* t(x) on a channel value of a hex colour, as get_rgb_hex will upscale it
t(v) == T8[v + 1]

\* t_rgb(rgb): the tone curve on every channel
t_rgb(rgb) == [k |-> "t", of |-> rgb]

Hex2(v) == DigitChar(v \div 16) \o DigitChar(v % 16)

\* t_rgb(rgb).get_rgb_hex() of a colour decoded from hex
get_rgb_hex(c) == "#" \o Hex2(t(c.of.r)) \o Hex2(t(c.of.g)) \o Hex2(t(c.of.b))

\* lighten and saturate shift the HSL lightness or saturation by amount/100
lighten(rgb, amount) == [k |-> "hsl", ch |-> "l", of |-> rgb, by |-> amount]

darken(rgb, amount) == lighten(rgb, 0 - amount)

saturate(rgb, amount) == [k |-> "hsl", ch |-> "s", of |-> rgb, by |-> amount]

desaturate(rgb, amount) == saturate(rgb, 0 - amount)

IsColor(v) == v.k \in {"rgb", "t", "hsl"}

\* the names of globals() that take (rgb, amount)
Adjustments == {"lighten", "darken", "saturate", "desaturate"}

\* globals()[name](rgb, amount)
Apply(name, rgb, amount) ==
    CASE name = "lighten" -> lighten(rgb, amount)
      [] name = "darken" -> darken(rgb, amount)
      [] name = "saturate" -> saturate(rgb, amount)
      [] name = "desaturate" -> desaturate(rgb, amount)

\* '%.4f' % (v / 255.0)
Format4f(v) ==
    Let((v * 20000 + 255) \div 510, LAMBDA n :
        NatToStr(n \div 10000) \o "."
        \o DigitChar((n \div 1000) % 10) \o DigitChar((n \div 100) % 10)
        \o DigitChar((n \div 10) % 10) \o DigitChar(n % 10))

\* str(rgb) of an sRGBColor decoded from hex
ColorStr(c) ==
    "sRGBColor (rgb_r:" \o Format4f(c.r) \o " rgb_g:" \o Format4f(c.g)
    \o " rgb_b:" \o Format4f(c.b) \o ")"

(***************************************************************************)
(* The expression model: what parse_definition returns.  A str is          *)
(* [k |-> "str"], a Function [k |-> "fun"], a raised exception             *)
(* [k |-> "err"].                                                          *)
(***************************************************************************)
Str(s) == [k |-> "str", s |-> s]

Raise(e) == [k |-> "err", e |-> e]

\* Variable(name, value)
Variable(name, value) == [name |-> name, value |-> value]

\* sRGBColor.new_from_rgb_hex(c): six hex digits after the #, or ValueError
new_from_rgb_hex(c) ==
    IF Len(c) = 7
    THEN RGB(16 * DigitVal(At(c, 2)) + DigitVal(At(c, 3)),
             16 * DigitVal(At(c, 4)) + DigitVal(At(c, 5)),
             16 * DigitVal(At(c, 6)) + DigitVal(At(c, 7)))
    ELSE Raise("ValueError")

\* parse_hex_color(match), c being match.group()
parse_hex_color(c) ==
    IF Len(c) = 4
    THEN new_from_rgb_hex("#" \o At(c, 2) \o At(c, 2) \o At(c, 3) \o At(c, 3)
                          \o At(c, 4) \o At(c, 4))
    ELSE new_from_rgb_hex(c)

ToLower(ch) ==
    Let(IndexOf("ABCDEFGHIJKLMNOPQRSTUVWXYZ", ch, 1), LAMBDA i :
        IF i = 0 THEN ch ELSE At("abcdefghijklmnopqrstuvwxyz", i))

RECURSIVE lower(_)
\* str.lower()
lower(s) == IF s = "" THEN "" ELSE ToLower(Head(s)) \o lower(Tail(s))

\* the entries of the CSS3 table of webcolors that the model keeps
ColorNames ==
    [n \in {"red", "white", "black", "green", "blue", "grey"} |->
        CASE n = "red" -> "#ff0000" [] n = "white" -> "#ffffff" [] n = "black" -> "#000000"
          [] n = "green" -> "#008000" [] n = "blue" -> "#0000ff" [] n = "grey" -> "#808080"]

\* webcolors.name_to_hex(name): the hex of a known name, or ValueError
name_to_hex(name) ==
    Let(lower(name), LAMBDA normalized :
        IF normalized \in DOMAIN ColorNames
        THEN Str(ColorNames[normalized])
        ELSE Raise("ValueError"))

RECURSIVE parse_definition(_)
\* Function(name, argument, value): __init__ parses the argument
Function(name, argument, value) ==
    Let(parse_definition(argument), LAMBDA a :
        IF a.k = "err" THEN a
        ELSE [k |-> "fun", name |-> name, argument |-> a, value |-> value])

\* parse_function(match), match being a match of FUNCTION in s
parse_function(m, s) == Function(Group(m, s, 1), Group(m, s, 2), Group(m, s, 3))

\* the NAMED_COLOR branch of parse_definition: a ValueError of name_to_hex is
\* caught and the definition returned as it is
parse_named_color(definition) ==
    Let(name_to_hex(definition), LAMBDA color :
        IF color.k = "err" THEN Str(definition) ELSE new_from_rgb_hex(color.s))

\* parse_definition with the FUNCTION test made before the RGBA test
parse_definition_function_first(definition) ==
    Let(re_match(HEX_COLOR, definition), LAMBDA hex :
        IF hex.ok THEN parse_hex_color(Group(hex, definition, 0))
        ELSE Let(re_match(FUNCTION, definition), LAMBDA fun :
        IF fun.ok THEN parse_function(fun, definition)
        ELSE IF re_match(RGBA, definition).ok THEN Str(definition)
        ELSE IF re_match(VARIABLE_REF, definition).ok THEN Str(definition)
        ELSE IF re_match(NAMED_COLOR, definition).ok THEN parse_named_color(definition)
        ELSE Str(definition)))

parse_definition(definition) ==
    Let(re_match(HEX_COLOR, definition), LAMBDA hex :
        IF hex.ok THEN parse_hex_color(Group(hex, definition, 0))
        ELSE IF re_match(RGBA, definition).ok THEN Str(definition)
        ELSE Let(re_match(FUNCTION, definition), LAMBDA fun :
        IF fun.ok THEN parse_function(fun, definition)
        ELSE IF re_match(VARIABLE_REF, definition).ok THEN Str(definition)
        ELSE IF re_match(NAMED_COLOR, definition).ok THEN parse_named_color(definition)
        ELSE Str(definition)))

\* parse_var_def(variable_name, definition)
\* an exception of parse_definition is the value's
parse_var_def(variable_name, definition) ==
    Variable(variable_name, parse_definition(definition))

(***************************************************************************)
(* Evaluation against the variable mapping: mapping is the dict variables, *)
(* a function from the names bound so far to Variable records.  Every      *)
(* result carries err ("" when nothing was raised), the lookups made in    *)
(* the mapping (lk) and the goals the optimizer was given (goals).         *)
(***************************************************************************)
None == [k |-> "none"]

Lookup(name, mapping) ==
    [name |-> name, hit |-> name \in DOMAIN mapping,
     value |-> IF name \in DOMAIN mapping THEN mapping[name].value ELSE None]

RECURSIVE Deref(_, _, _)
\* while isinstance(arg, str): arg = variables[arg].value
\* After as many lookups as there are names, a further hit repeats a name:
\* the loop never ends ("loop").
Deref(arg, mapping, lk) ==
    IF arg.k # "str" THEN [err |-> "", v |-> arg, lk |-> lk]
    ELSE IF arg.s \notin DOMAIN mapping
    THEN [err |-> "KeyError", v |-> None, lk |-> Append(lk, Lookup(arg.s, mapping))]
    ELSE IF Len(lk) >= Cardinality(DOMAIN mapping)
    THEN [err |-> "loop", v |-> None, lk |-> lk]
    ELSE Deref(mapping[arg.s].value, mapping, Append(lk, Lookup(arg.s, mapping)))

\* the names the module defines: globals()
Globals ==
    Adjustments \cup
    {"re", "np", "minimize", "convert_color", "sRGBColor", "HSLColor", "webcolors",
     "mss_files", "VARIABLE", "VARIABLE_DEF", "HEX_COLOR", "FUNCTION", "MIX_FUNCTION",
     "RGBA", "NAMED_COLOR", "SCALE_L", "variables", "t", "t_rgb", "scale_l", "Variable",
     "Function", "transform_fun", "transform_2fun", "transform_scale_l", "parse_var_def",
     "parse_hex_color", "parse_function", "parse_definition", "transform"}

\* fun = globals()[name]; fun(arg, amount): only the four adjustments take
\* a colour and an amount and return a colour
Call(name, arg, amount) ==
    IF name \notin Globals THEN Raise("KeyError")
    ELSE IF name \notin Adjustments \/ ~IsColor(arg) THEN Raise("TypeError")
    ELSE Apply(name, arg, amount)

Evaluated(err, v, lk) == [err |-> err, v |-> v, lk |-> lk]

\* Function.eval(self)
Function_eval(self, mapping) ==
    IF self.argument.k # "str" THEN Evaluated("", None, <<>>)
    ELSE Let(Lookup(self.argument.s, mapping), LAMBDA look :
         IF ~look.hit \/ self.name \notin Globals THEN Evaluated("KeyError", None, <<look>>)
         ELSE Let(PyInt(self.value), LAMBDA n :
         IF ~n.ok THEN Evaluated("ValueError", None, <<look>>)
         ELSE Let(Call(self.name, look.value, n.v), LAMBDA res :
         IF res.k = "err" THEN Evaluated(res.e, None, <<look>>)
         ELSE Evaluated("", res, <<look>>))))

\* the argument of transform_fun and transform_2fun, resolved to a colour:
\* the while loop, then "if isinstance(arg, Function): arg = arg.eval()"
Resolve(arg, mapping) ==
    Let(Deref(arg, mapping, <<>>), LAMBDA d :
        IF d.err # "" \/ d.v.k # "fun" THEN d
        ELSE Let(Function_eval(d.v, mapping), LAMBDA e :
             Evaluated(e.err, e.v, d.lk \o e.lk)))

Failed(err, lk) == [err |-> err, x |-> <<>>, lk |-> lk, goals |-> <<>>]

\* what minimize is asked to reach: arg, arg_t and res_t_goal
Goal(arg, res) == [arg |-> arg, arg_t |-> t_rgb(arg), res_t_goal |-> t_rgb(res)]

\* transform_fun(fun_str, val, arg); opt is what minimize returns
transform_fun(fun_str, val, arg, mapping, opt) ==
    Let(Resolve(arg, mapping), LAMBDA a :
        IF a.err # "" THEN Failed(a.err, a.lk)
        ELSE Let(Call(fun_str, a.v, val), LAMBDA res :
        IF res.k = "err" THEN Failed(res.e, a.lk)
        ELSE [err |-> "", x |-> <<opt[1]>>, lk |-> a.lk, goals |-> <<Goal(a.v, res)>>]))

\* transform_2fun(fun1_str, val1, fun2_str, val2, arg)
transform_2fun(fun1_str, val1, fun2_str, val2, arg, mapping, opt) ==
    Let(Resolve(arg, mapping), LAMBDA a :
        IF a.err # "" THEN Failed(a.err, a.lk)
        ELSE IF fun1_str \notin Globals \/ fun2_str \notin Globals THEN Failed("KeyError", a.lk)
        ELSE Let(Call(fun1_str, a.v, val1), LAMBDA inner :
        IF inner.k = "err" THEN Failed(inner.e, a.lk)
        ELSE Let(Call(fun2_str, inner, val2), LAMBDA res :
        IF res.k = "err" THEN Failed(res.e, a.lk)
        ELSE [err |-> "", x |-> <<opt[1], opt[2]>>, lk |-> a.lk,
              goals |-> <<Goal(a.v, res)>>])))

\* repr of one character between quotes q
EscapeChar(ch, q) ==
    CASE ch = "\\" -> "\\\\"
      [] ch = q -> "\\" \o q
      [] ch = "\t" -> "\\t"
      [] ch = "\r" -> "\\r"
      [] ch = "\f" -> "\\x0c"
      [] OTHER -> ch

RECURSIVE EscapeStr(_, _)
\* the body of repr(s) between quotes q
EscapeStr(s, q) ==
    IF s = "" THEN "" ELSE EscapeChar(Head(s), q) \o EscapeStr(Tail(s), q)

\* repr(s) of a str
ReprStr(s) ==
    IF IndexOf(s, "'", 1) # 0 /\ IndexOf(s, "\"", 1) = 0
    THEN "\"" \o EscapeStr(s, "\"") \o "\""
    ELSE "'" \o EscapeStr(s, "'") \o "'"

\* f'{arg}' of an expression: a str is itself, a colour prints as the object
\* it is, a Function by its __repr__ (only reached with a str argument)
Format(arg) ==
    CASE arg.k = "str" -> arg.s
      [] arg.k = "rgb" -> ColorStr(arg)
      [] arg.k = "fun" ->
            "Function(" \o arg.name \o ", " \o ReprStr(arg.argument.s) \o ", "
            \o ReprStr(arg.value) \o ")"

Printed(err, text, n, lk, goals) ==
    [err |-> err, text |-> text, n |-> n, lk |-> lk, goals |-> goals]

\* the chained branch of Function.print_transform
print_transform_2fun(fun1, value1, fun2, value2, arg, mapping, opt) ==
    Let(PyInt(value1), LAMBDA val1 :
    Let(PyInt(value2), LAMBDA val2 :
        IF ~val1.ok \/ ~val2.ok THEN Printed("ValueError", "", 0, <<>>, <<>>)
        ELSE Let(transform_2fun(fun1, val1.v, fun2, val2.v, arg, mapping, opt), LAMBDA r :
        IF r.err # "" THEN Printed(r.err, "", 0, r.lk, <<>>)
        ELSE Printed("", fun2 \o "(" \o fun1 \o "(" \o Format(arg) \o ", "
                         \o IntToStr(PyRound(r.x[1])) \o "%), "
                         \o IntToStr(PyRound(r.x[2])) \o "%)",
                     2, r.lk, r.goals))))

\* print_transform_fun without the conversion of a colour argument to hex
print_transform_fun_unconverted(fun, value, arg, mapping, opt) ==
    Let(PyInt(value), LAMBDA val :
        IF ~val.ok THEN Printed("ValueError", "", 0, <<>>, <<>>)
        ELSE Let(transform_fun(fun, val.v, arg, mapping, opt), LAMBDA r :
        IF r.err # "" THEN Printed(r.err, "", 0, r.lk, <<>>)
        ELSE Printed("", fun \o "(" \o Format(arg) \o ", " \o IntToStr(PyRound(r.x[1])) \o "%)",
                     1, r.lk, r.goals)))

\* the single-call branch of Function.print_transform
print_transform_fun(fun, value, arg, mapping, opt) ==
    Let(PyInt(value), LAMBDA val :
        IF ~val.ok THEN Printed("ValueError", "", 0, <<>>, <<>>)
        ELSE Let(transform_fun(fun, val.v, arg, mapping, opt), LAMBDA r :
        IF r.err # "" THEN Printed(r.err, "", 0, r.lk, <<>>)
        ELSE Printed("", fun \o "("
                         \o (IF arg.k = "rgb" THEN get_rgb_hex(t_rgb(arg)) ELSE Format(arg))
                         \o ", " \o IntToStr(PyRound(r.x[1])) \o "%)",
                     1, r.lk, r.goals)))

\* Function.print_transform(self); opt holds the results of minimize, n of
\* them are used
Function_print_transform(self, mapping, opt) ==
    IF self.argument.k = "fun"
    THEN print_transform_2fun(self.argument.name, self.argument.value, self.name,
                              self.value, self.argument.argument, mapping, opt)
    ELSE print_transform_fun(self.name, self.value, self.argument, mapping, opt)

\* Variable.print_definition(self)
Variable_print_definition(self, mapping, opt) ==
    CASE self.value.k = "rgb" ->
            Printed("", self.name \o ": " \o get_rgb_hex(t_rgb(self.value)), 0, <<>>, <<>>)
      [] self.value.k = "str" ->
            Printed("", self.name \o ": " \o self.value.s, 0, <<>>, <<>>)
      [] self.value.k = "fun" ->
            Let(Function_print_transform(self.value, mapping, opt), LAMBDA p :
                Printed(p.err, self.name \o ": " \o p.text, p.n, p.lk, p.goals))

\* scale_l(rgb, l0, l1): the HSL lightness L becomes l0 + L * (l1 - l0)
scale_l(rgb, l0, l1) == [k |-> "hsl", ch |-> "scale", of |-> rgb, by |-> <<l0, l1>>]

\* color_names of transform_scale_l
color_names == <<"@forest", "@grass", "@farmland", "@residential">>

RECURSIVE Palette(_, _, _)
\* [variables[name].value for name in color_names], from the i-th name on
Palette(i, mapping, lk) ==
    IF i > Len(color_names) THEN [err |-> "", lk |-> lk]
    ELSE IF color_names[i] \notin DOMAIN mapping
    THEN [err |-> "KeyError", lk |-> Append(lk, Lookup(color_names[i], mapping))]
    ELSE Palette(i + 1, mapping, Append(lk, Lookup(color_names[i], mapping)))

\* the goals of transform_scale_l for the colours looked up
ScaleGoals(lk, l0, l1) ==
    [i \in 1..Len(lk) |-> Goal(lk[i].value, scale_l(lk[i].value, l0, l1))]

\* transform_scale_l without the test for l0 == 0 and l1 == 1
transform_scale_l_always_fitted(l0, l1, mapping, opt) ==
    Let(Palette(1, mapping, <<>>), LAMBDA colors :
        IF colors.err # "" THEN Printed(colors.err, "", 0, colors.lk, <<>>)
        ELSE IF \E i \in 1..Len(colors.lk) : ~IsColor(colors.lk[i].value)
        THEN Printed("TypeError", "", 0, colors.lk, <<>>)
        ELSE Printed("", "scale-hsla(0,1,0,1," \o FormatDot2(opt[1]) \o ","
                         \o FormatDot2(opt[2]) \o ",0,1)",
                     2, colors.lk, ScaleGoals(colors.lk, l0, l1)))

\* transform_scale_l(l0, l1), l0 and l1 being fractions num/den
transform_scale_l(l0, l1, mapping, opt) ==
    IF l0.num = 0 /\ l1.num = l1.den
    THEN Printed("", "scale-hsla(0,1,0,1,0,   1,   0,1)", 0, <<>>, <<>>)
    ELSE Let(Palette(1, mapping, <<>>), LAMBDA colors :
         IF colors.err # "" THEN Printed(colors.err, "", 0, colors.lk, <<>>)
         ELSE IF \E i \in 1..Len(colors.lk) : ~IsColor(colors.lk[i].value)
         THEN Printed("TypeError", "", 0, colors.lk, <<>>)
         ELSE Printed("", "scale-hsla(0,1,0,1," \o FormatDot2(opt[1]) \o ","
                          \o FormatDot2(opt[2]) \o ",0,1)",
                      2, colors.lk, ScaleGoals(colors.lk, l0, l1)))

(***************************************************************************)
(* A line, read: its category and, for every match re.sub will visit, the  *)
(* span of the match and what the callback parses from it.  This part of   *)
(* transform() does not read the variable mapping.                         *)
(***************************************************************************)
ScaleItem(m, line) ==
    [s |-> m.s, e |-> m.e,
     l0 |-> PyFloat(Group(m, line, 1)), l1 |-> PyFloat(Group(m, line, 2))]

\* parse_function(re.match(FUNCTION, g)) of mix_fun_repl: without a match,
\* match.group raises AttributeError
MixArg(g) ==
    Let(re_match(FUNCTION, g), LAMBDA match :
        IF match.ok THEN parse_function(match, g) ELSE Raise("AttributeError"))

MixItem(m, line) ==
    [s |-> m.s, e |-> m.e, f1 |-> MixArg(Group(m, line, 1)),
     f2 |-> MixArg(Group(m, line, 2)), pct |-> Group(m, line, 3)]

FunItem(m, line) == [s |-> m.s, e |-> m.e, f |-> parse_function(m, line)]

HexItem(m, line) == [s |-> m.s, e |-> m.e, c |-> parse_hex_color(Group(m, line, 0))]

Each(ms, line, Item(_, _)) == [i \in 1..Len(ms) |-> Item(ms[i], line)]

Items(re, line, Item(_, _)) == Each(FindAll(re, line, 1), line, Item)

\* the definition line matched by def
Definition(def, line) ==
    [cat |-> "def",
     var |-> parse_var_def(Group(def, line, 1), strip(Group(def, line, 2))),
     items |-> <<>>]

\* the tests of transform() on one line, in their order
Scan(line) ==
    IF re_match(VARIABLE_DEF, line).ok
    THEN Definition(re_match(VARIABLE_DEF, line), line)
    ELSE IF re_search(SCALE_L, line).ok
    THEN [cat |-> "scale", var |-> None, items |-> Items(SCALE_L, line, ScaleItem)]
    ELSE IF re_search(MIX_FUNCTION, line).ok
    THEN [cat |-> "mix", var |-> None, items |-> Items(MIX_FUNCTION, line, MixItem)]
    ELSE IF re_search(FUNCTION, line).ok
    THEN [cat |-> "fun", var |-> None, items |-> Items(FUNCTION, line, FunItem)]
    ELSE [cat |-> "hex", var |-> None, items |-> Items(HEX_COLOR, line, HexItem)]

(***************************************************************************)
(* The callbacks of re.sub.                                                *)
(***************************************************************************)
\* fun_repl(match)
fun_repl(it, mapping, opt) ==
    IF it.f.k = "err" THEN Printed(it.f.e, "", 0, <<>>, <<>>)
    ELSE Function_print_transform(it.f, mapping, opt)

\* mix_fun_repl(match)
mix_fun_repl(it, mapping, opt) ==
    IF it.f1.k = "err" THEN Printed(it.f1.e, "", 0, <<>>, <<>>)
    ELSE Let(Function_print_transform(it.f1, mapping, opt), LAMBDA p1 :
    IF p1.err # "" THEN p1
    ELSE IF it.f2.k = "err" THEN Printed(it.f2.e, "", 0, p1.lk, <<>>)
    ELSE Let(Function_print_transform(it.f2, mapping, SubSeq(opt, p1.n + 1, Len(opt))), LAMBDA p2 :
    IF p2.err # "" THEN Printed(p2.err, "", 0, p1.lk \o p2.lk, <<>>)
    ELSE Printed("", "mix(" \o p1.text \o ", " \o p2.text \o ", " \o it.pct \o "%)",
                 p1.n + p2.n, p1.lk \o p2.lk, p1.goals \o p2.goals)))

\* color_repl(match)
color_repl(it) ==
    IF it.c.k = "err" THEN Printed(it.c.e, "", 0, <<>>, <<>>)
    ELSE Printed("", get_rgb_hex(t_rgb(it.c)), 0, <<>>, <<>>)

\* scale_l_repl(match)
scale_l_repl(it, mapping, opt) ==
    IF ~it.l0.ok \/ ~it.l1.ok THEN Printed("ValueError", "", 0, <<>>, <<>>)
    ELSE transform_scale_l(it.l0, it.l1, mapping, opt)

Repl(cat, it, mapping, opt) ==
    CASE cat = "scale" -> scale_l_repl(it, mapping, opt)
      [] cat = "mix" -> mix_fun_repl(it, mapping, opt)
      [] cat = "fun" -> fun_repl(it, mapping, opt)
      [] cat = "hex" -> color_repl(it)

\* acc after the match it was replaced by r.text
Replaced(acc, it, r, line, pos) ==
    [acc EXCEPT !.text = acc.text \o Slice(line, pos, it.s - 1) \o r.text,
                !.n = acc.n + r.n,
                !.lk = acc.lk \o r.lk,
                !.goals = acc.goals \o r.goals,
                !.repls = Append(acc.repls, [s |-> it.s, e |-> it.e, text |-> r.text])]

RECURSIVE re_sub(_, _, _, _, _, _, _)
\* re.sub with count=1: only the first match is replaced
re_sub_first_only(cat, items, k, line, pos, mapping, acc) ==
    IF k > Len(items) \/ k > 1
    THEN [acc EXCEPT !.text = acc.text \o Slice(line, pos, Len(line))]
    ELSE Let(Repl(cat, items[k], mapping, SubSeq(acc.opt, acc.n + 1, Len(acc.opt))), LAMBDA r :
         IF r.err # ""
         THEN [acc EXCEPT !.err = r.err, !.text = "", !.lk = acc.lk \o r.lk]
         ELSE re_sub(cat, items, k + 1, line, items[k].e, mapping,
                     Replaced(acc, items[k], r, line, pos)))

\* re.sub(pattern, repl, line): every match is replaced by what the callback
\* returns for it, left to right; acc is the result so far, pos the position
\* after the last match
re_sub(cat, items, k, line, pos, mapping, acc) ==
    IF k > Len(items)
    THEN [acc EXCEPT !.text = acc.text \o Slice(line, pos, Len(line))]
    ELSE Let(Repl(cat, items[k], mapping, SubSeq(acc.opt, acc.n + 1, Len(acc.opt))), LAMBDA r :
         IF r.err # ""
         THEN [acc EXCEPT !.err = r.err, !.text = "", !.lk = acc.lk \o r.lk]
         ELSE re_sub(cat, items, k + 1, line, items[k].e, mapping,
                     Replaced(acc, items[k], r, line, pos)))

\* nothing done yet on a line
Start(mapping, opt) ==
    [err |-> "", text |-> "", n |-> 0, lk |-> <<>>, goals |-> <<>>,
     repls |-> <<>>, opt |-> opt, mapping |-> mapping]

\* a binding that leaves a name already bound as it is
Bind_first_kept(mapping, var) ==
    [n \in DOMAIN mapping \cup {var.name} |->
        IF n \in DOMAIN mapping THEN mapping[n] ELSE var]

\* a binding that stores the tone-curved colour in place of the one defined
Bind_retouched(mapping, var) ==
    [n \in DOMAIN mapping \cup {var.name} |->
        IF n # var.name THEN mapping[n]
        ELSE IF var.value.k = "rgb" THEN Variable(var.name, t_rgb(var.value)) ELSE var]

\* variables[match.group(1)] = var
Bind(mapping, var) ==
    [n \in DOMAIN mapping \cup {var.name} |-> IF n = var.name THEN var ELSE mapping[n]]

\* outfile.write(var.print_definition() + ';\n'), var bound in mapping
WriteDefinition(var, mapping, opt) ==
    Let(Variable_print_definition(var, mapping, opt), LAMBDA p :
        [Start(mapping, opt) EXCEPT !.err = p.err,
                                 !.text = IF p.err = "" THEN p.text \o ";\n" ELSE "",
                                 !.n = p.n, !.lk = p.lk, !.goals = p.goals])

\* the body of the loop over the lines of a file: what is written for line,
\* and the mapping afterwards
Rewrite(scan, line, mapping, opt) ==
    IF scan.cat = "def"
    THEN IF scan.var.value.k = "err"
         THEN [Start(mapping, opt) EXCEPT !.err = scan.var.value.e]
         ELSE WriteDefinition(scan.var, Bind(mapping, scan.var), opt)
    ELSE re_sub(scan.cat, scan.items, 1, line, 1, mapping, Start(mapping, opt))

(***************************************************************************)
(* The run.  The lines of the .mss files are drawn from Lines; at most     *)
(* MaxLines lines are read in a run of MaxFiles files.                     *)
(***************************************************************************)
MaxLines == 3

MaxFiles == 2

Lines ==
    {"@r: #f00;\n",
     " @r : #000000; // dark;\n",
     "@a: @a;\n",
     "@g: darken(@r, 10%);\n",
     "a: lighten(@r, 20%);\n",
     "a: saturate(darken(@r, 10%), 5%);\n",
     "a: saturate(darken(#f00, 10%), 5%);\n",
     "a: lighten(#f00, 20%) #000;\n",
     "a: #000; b: #f00;\n",
     "a: scale-hsla(0,1,0,1,0,1,0,1);\n",
     "a: scale-hsla(0,1,0,1,0.2,0.8,0,1);\n",
     "a: mix(lighten(@r, 5%), darken(#f00, 5%), 50%);\n",
     "b: @r;\n",
     "a: lighten(@g, 5%);\n",
     "a: lighten(@a, 5%);\n",
     "@x: foo;\n"}

\* Scan, once for every line
ScanOf == [line \in Lines |-> Scan(line)]

\* what minimize may return for an adjustment, in tenths of a percent
OptValues == {-15, 125}

\* what minimize may return for l0 and l1, in tenths
ScaleOptValues == {1, 9}

Calls(f) == IF f.k # "fun" THEN 0 ELSE IF f.argument.k = "fun" THEN 2 ELSE 1

\* the results of minimize a line may use
Oracles(scan) ==
    CASE scan.cat = "def" -> [1..Calls(scan.var.value) -> OptValues]
      [] scan.cat = "fun" -> [1..Calls(scan.items[1].f) -> OptValues]
      [] scan.cat = "mix" -> [1..2 -> OptValues]
      [] scan.cat = "scale" -> [1..2 * Len(scan.items) -> ScaleOptValues]
      [] scan.cat = "hex" -> {<<>>}

\* the definitions parse_definition is applied to on its own: the shapes of
\* the grammar, and text next to them
Colors ==
    {"#f00", "#FfA500", "#000", "#ffff", "#12", "#f00 !important", "#ggg", "#f0g",
     "red", "White", "grey", "foo", "red dashed", ""}

Passed ==
    {"rgba(0,0,0, 50%)", "rgba(255, 0, 0, 0.5)", "rgb(0,0,0)", "@r", "@land-color",
     "@r + 1", "12px", "url(a.png)", "mix(#f00, #000, 50%)", "mixer(@r, 5%)"}

FunctionNames == {"lighten", "darken", "saturate", "desaturate", "fade"}

Call1(args) == {n \o "(" \o a \o ", " \o v \o "%)" : n \in FunctionNames, a \in args, v \in {"10", "5"}}

Call2(calls) == {n \o "(" \o c \o ", 20%)" : n \in {"saturate", "mix"}, c \in calls}

Definitions ==
    Colors \cup Passed
    \cup Call1({"#f00", "#ffff", "@r", "red", "rgba(0,0,0, 50%)", "a, b"})
    \cup Call2(Call1({"#abc", "@r"}))

VARIABLES
    variables,   \* the dict variables: name -> Variable
    fileno,      \* the index in mss_files of the file being processed
    outfile,     \* the lines written to the open output file
    nlines,      \* the number of lines read in the run
    pc,          \* "running", "done", "crashed" (an exception left transform()),
                 \* "hung" (a loop that never ends)
    last,        \* the line read last and what its processing did
    defined,     \* history: name -> the given line that bound it last
    given,  \* the argument of a call of parse_definition on its own
    parsed       \* what that call returned, None before it returns

vars == <<variables, fileno, outfile, nlines, pc, last, defined, given, parsed>>

NoLine ==
    [line |-> "", cat |-> "", err |-> "", text |-> "", lk |-> <<>>, goals |-> <<>>,
     repls |-> <<>>, before |-> <<>>]

\* the module, loaded: variables = {}
Loaded ==
    /\ variables = <<>>
    /\ fileno = 1
    /\ outfile = <<>>
    /\ nlines = 0
    /\ pc = "running"
    /\ last = NoLine
    /\ defined = <<>>

Init ==
    /\ Loaded
    /\ given = ""
    /\ parsed = None

\* defined once line was read: a given line whose binding was stored
Defined(line, scan) ==
    IF scan.cat = "def" /\ scan.var.value.k # "err"
    THEN [n \in DOMAIN defined \cup {scan.var.name} |->
             IF n = scan.var.name THEN line ELSE defined[n]]
    ELSE defined

\* an iteration that catches what the line raises and writes the line as it is
ReadLine_caught(line) ==
    /\ pc = "running"
    /\ nlines < MaxLines
    /\ \E opt \in Oracles(ScanOf[line]) :
       \E r \in {Rewrite(ScanOf[line], line, variables, opt)} :
              /\ variables' = r.mapping
              /\ outfile' = Append(outfile, IF r.err = "" THEN r.text ELSE line)
              /\ pc' = "running"
              /\ last' = [line |-> line, cat |-> ScanOf[line].cat, err |-> r.err,
                          text |-> r.text, lk |-> r.lk, goals |-> r.goals,
                          repls |-> r.repls, before |-> variables]
    /\ defined' = Defined(line, ScanOf[line])
    /\ nlines' = nlines + 1
    /\ UNCHANGED <<fileno, given, parsed>>

\* one iteration of "for line in infile"
ReadLine(line) ==
    /\ pc = "running"
    /\ nlines < MaxLines
    /\ \E opt \in Oracles(ScanOf[line]) :
       \E r \in {Rewrite(ScanOf[line], line, variables, opt)} :
              /\ variables' = r.mapping
              /\ outfile' = IF r.err = "" THEN Append(outfile, r.text) ELSE outfile
              /\ pc' = IF r.err = "" THEN "running"
                       ELSE IF r.err = "loop" THEN "hung" ELSE "crashed"
              /\ last' = [line |-> line, cat |-> ScanOf[line].cat, err |-> r.err,
                          text |-> r.text, lk |-> r.lk, goals |-> r.goals,
                          repls |-> r.repls, before |-> variables]
    /\ defined' = Defined(line, ScanOf[line])
    /\ nlines' = nlines + 1
    /\ UNCHANGED <<fileno, given, parsed>>

\* the end of a file, with the mapping emptied for the next one
NextFile_cleared ==
    /\ pc = "running"
    /\ fileno < MaxFiles
    /\ fileno' = fileno + 1
    /\ outfile' = <<>>
    /\ variables' = <<>>
    /\ UNCHANGED <<nlines, pc, last, defined, given, parsed>>

\* the end of a file: the next one of mss_files is opened
NextFile ==
    /\ pc = "running"
    /\ fileno < MaxFiles
    /\ fileno' = fileno + 1
    /\ outfile' = <<>>
    /\ UNCHANGED <<variables, nlines, pc, last, defined, given, parsed>>

\* the end of the last file: transform() returns
Finish ==
    /\ pc = "running"
    /\ fileno = MaxFiles
    /\ pc' = "done"
    /\ UNCHANGED <<variables, fileno, outfile, nlines, last, defined, given, parsed>>

Next ==
    \/ \E line \in Lines : ReadLine(line)
    \/ NextFile
    \/ Finish

Spec == Init /\ [][Next]_vars

(***************************************************************************)
(* parse_definition on its own, applied to one of Definitions.             *)
(***************************************************************************)
ParseInit ==
    /\ Loaded
    /\ given \in Definitions
    /\ parsed = None

ParseDefinition ==
    /\ parsed = None
    /\ parsed' = parse_definition(given)
    /\ UNCHANGED <<variables, fileno, outfile, nlines, pc, last, defined, given>>

ParseNext == ParseDefinition

ParseSpec == ParseInit /\ [][ParseNext]_vars
(***************************************************************************)
(* C2: the rules of parse_definition.                                      *)
(***************************************************************************)
\* the colours the hex literals and the names of Definitions and Lines denote
Denoted(c) ==
    CASE c \in {"#f00", "red"} -> RGB(255, 0, 0)
      [] c \in {"#000", "#000000"} -> RGB(0, 0, 0)
      [] c = "#FfA500" -> RGB(255, 165, 0)
      [] c = "#abc" -> RGB(170, 187, 204)
      [] c = "white" -> RGB(255, 255, 255)
      [] c = "grey" -> RGB(128, 128, 128)

KnownNames == {"red", "white", "black", "green", "blue", "grey"}

Matches(re, d) == re_match(re, d).ok

Part(re, d, n) == Group(re_match(re, d), d, n)

\* name(arg, value%), whatever the name
FunctionShape == <<FUNCTION[1]>> \o SubSeq(FUNCTION, 3, Len(FUNCTION))

\* a call of name and value with the argument a, an exception raised for the
\* argument being the call's
Called(name, a, value) ==
    IF a.k = "err" THEN a
    ELSE [k |-> "fun", name |-> name, argument |-> a, value |-> value]

\* the first rule, in the order of parse_definition, that d matches
Rule(d) ==
    IF Matches(HEX_COLOR, d) THEN "hex"
    ELSE IF Matches(RGBA, d) THEN "rgba"
    ELSE IF Matches(FUNCTION, d) THEN "function"
    ELSE IF Matches(VARIABLE_REF, d) THEN "variable"
    ELSE IF Matches(NAMED_COLOR, d) THEN "named"
    ELSE "other"

RECURSIVE Classified(_)
\* what the rules give for d: a hex literal of 3 or 6 digits is a colour and
\* one of another length a ValueError, a known name is a colour
Classified(d) ==
    CASE Rule(d) = "hex" ->
            IF Len(Part(HEX_COLOR, d, 0)) \in {4, 7}
            THEN Denoted(Part(HEX_COLOR, d, 0))
            ELSE Raise("ValueError")
      [] Rule(d) = "function" ->
            Called(Part(FUNCTION, d, 1), Classified(Part(FUNCTION, d, 2)),
                   Part(FUNCTION, d, 3))
      [] Rule(d) = "named" /\ lower(d) \in KnownNames -> Denoted(lower(d))
      [] OTHER -> Str(d)

RECURSIVE Claimed(_, _)
\* p is what C2 says of d: every hex literal is a colour, every call whose
\* name is not mix a FunctionCall
Claimed(d, p) ==
    IF Matches(HEX_COLOR, d) THEN p.k = "rgb"
    ELSE IF Matches(RGBA, d) THEN p = Str(d)
    ELSE IF Matches(FunctionShape, d) /\ Part(FunctionShape, d, 1) # "mix"
    THEN /\ p.k = "fun"
         /\ p.name = Part(FunctionShape, d, 1)
         /\ Claimed(Part(FunctionShape, d, 2), p.argument)
    ELSE IF Matches(VARIABLE_REF, d) THEN p = Str(d)
    ELSE IF Matches(NAMED_COLOR, d) /\ lower(d) \in KnownNames THEN p.k = "rgb"
    ELSE p = Str(d)

\* C2 as stated: parse_definition classifies every definition by the first
\* rule that matches, in the order hex colour, rgba literal, call whose name
\* is not mix, variable reference, named colour, unrecognised; hex and known
\* named colours give a Color, a call a FunctionCall with its argument parsed
\* by the same rules, everything else the unchanged string.
CexC2 == parsed # None => Claimed(given, parsed)

\* C2, amended: the rules are tried in that order, the call rule leaving out
\* every name that begins with mix; a hex literal of 3 or 6 digits and a known
\* named colour give a Color, a hex literal of any other length raises
\* ValueError (also out of the argument of a call), a call gives a
\* FunctionCall with its argument parsed by the same rules, and everything
\* else is returned as the unchanged string.
ThmC2 == parsed # None => parsed = Classified(given)

\* a chained call was parsed down to the colour of its innermost argument
WitC2 ==
    /\ parsed.k = "fun"
    /\ parsed.argument.k = "fun"
    /\ parsed.argument.argument.k = "rgb"
(***************************************************************************)
(* The line read last, for the properties of transform().                  *)
(***************************************************************************)
StartsWith(s, prefix) == Len(s) >= Len(prefix) /\ SubSeq(s, 1, Len(prefix)) = prefix

EndsWith(s, suffix) ==
    Len(s) >= Len(suffix) /\ SubSeq(s, Len(s) - Len(suffix) + 1, Len(s)) = suffix

Found(re, s) == re_search(re, s).ok

\* a line was read and nothing was raised
Read == last.line # "" /\ last.err = ""

\* what the k-th match on the line read last was parsed to
Item(k) == ScanOf[last.line].items[k]

\* the name and the definition of a definition line
Defines(line) ==
    IF Matches(VARIABLE_DEF, line)
    THEN [name |-> Part(VARIABLE_DEF, line, 1),
          definition |-> strip(Part(VARIABLE_DEF, line, 2)),
          before |-> Slice(line, 1, re_match(VARIABLE_DEF, line).g[2][1] - 1),
          after |-> Slice(line, re_match(VARIABLE_DEF, line).g[2][2], Len(line))]
    ELSE [name |-> "", definition |-> "", before |-> "", after |-> ""]

\* the pattern of a category
PatternOf(cat) ==
    CASE cat = "scale" -> SCALE_L
      [] cat = "mix" -> MIX_FUNCTION
      [] cat = "fun" -> FUNCTION
      [] cat = "hex" -> HEX_COLOR

\* the first category, in the order of transform(), that the line matches
FirstCategory(line) ==
    IF Matches(VARIABLE_DEF, line) THEN "def"
    ELSE IF Found(SCALE_L, line) THEN "scale"
    ELSE IF Found(MIX_FUNCTION, line) THEN "mix"
    ELSE IF Found(FUNCTION, line) THEN "fun"
    ELSE "hex"

RECURSIVE Rebuilt(_, _, _, _)
\* line from position pos on, with the spans repls[k..] replaced by their texts
Rebuilt(line, repls, k, pos) ==
    IF k > Len(repls) THEN Slice(line, pos, Len(line))
    ELSE Slice(line, pos, repls[k].s - 1) \o repls[k].text
         \o Rebuilt(line, repls, k + 1, repls[k].e)

\* the spans of the matches re.sub visits
Spans(ms) == [k \in 1..Len(ms) |-> <<ms[k].s, ms[k].e>>]

\* the variables referenced in text
Referenced(text) ==
    {Slice(text, m.s, m.e - 1) :
        m \in {FindAll(VARIABLE_REF, text, 1)[k] :
                  k \in 1..Len(FindAll(VARIABLE_REF, text, 1))}}

\* of every line of Lines: its first category, the matches of that category,
\* the definition it makes and what the rules give for it, the variables it
\* refers to
LineOf ==
    [line \in Lines \cup {""} |->
        [cat |-> FirstCategory(line),
         spans |-> IF FirstCategory(line) = "def" THEN <<>>
                   ELSE Spans(FindAll(PatternOf(FirstCategory(line)), line, 1)),
         def |-> Defines(line),
         value |-> Classified(Defines(line).definition),
         refs |-> Referenced(IF FirstCategory(line) = "def"
                             THEN Defines(line).definition ELSE line),
         unknown |-> /\ Rule(Defines(line).definition) = "named"
                     /\ lower(Defines(line).definition) \notin KnownNames]]

\* the texts of the integers a percentage is written as
IntTexts == {IntToStr(n) : n \in -200..200}

(***************************************************************************)
(* C1: one category per line, and what is rewritten on it.                 *)
(***************************************************************************)
\* C1 as stated: the category applied is the first that matches; only the
\* first match of that category is rewritten and all other text of the line,
\* on a definition line the text around the definition, passes through.
CexC1 ==
    Read =>
        /\ last.cat = LineOf[last.line].cat
        /\ last.cat = "def" =>
              /\ StartsWith(last.text, LineOf[last.line].def.before)
              /\ EndsWith(last.text, LineOf[last.line].def.after)
        /\ last.cat # "def" =>
              /\ Len(last.repls) <= 1
              /\ last.text = Rebuilt(last.line, last.repls, 1, 1)

\* C1, amended: the category applied is the first that matches; every match
\* of that category on the line, left to right and not overlapping, is
\* rewritten, not only the first, and the text outside these matches passes
\* through unchanged, matches of the later categories included; a definition
\* line is written anew as "name: definition;" and a newline, without the
\* text before the name or after the last semicolon.
ThmC1 ==
    Read =>
        /\ last.cat = LineOf[last.line].cat
        /\ last.cat = "def" =>
              /\ StartsWith(last.text, LineOf[last.line].def.name \o ": ")
              /\ EndsWith(last.text, ";\n")
              /\ last.repls = <<>>
        /\ last.cat # "def" =>
              /\ Spans(last.repls) = LineOf[last.line].spans
              /\ last.text = Rebuilt(last.line, last.repls, 1, 1)

\* two hex literals on one line were both rewritten
WitC1 ==
    /\ Read
    /\ last.cat = "hex"
    /\ Len(last.repls) = 2
    /\ last.text # last.line

(***************************************************************************)
(* C3, C4: what a re-fitted call is written as.                            *)
(***************************************************************************)
\* the hex strings of the tone-curved colours
Toned == {<<RGB(255, 0, 0), "#ff1111">>, <<RGB(0, 0, 0), "#111111">>}

\* the line read last held one adjustment call, not chained, and was rewritten
SingleCall ==
    /\ Read
    /\ last.cat = "fun"
    /\ Item(1).f.argument.k # "fun"

\* ... whose argument is a reference to a variable defined as a colour
OfColorVariable ==
    /\ SingleCall
    /\ Item(1).f.argument.k = "str"
    /\ Item(1).f.argument.s \in DOMAIN variables
    /\ variables[Item(1).f.argument.s].value.k = "rgb"

\* text is name(arg, <int>%)
IsCall(text, name, arg) ==
    /\ StartsWith(text, name \o "(" \o arg \o ", ")
    /\ EndsWith(text, "%)")
    /\ Slice(text, Len(name) + Len(arg) + 4, Len(text) - 2) \in IntTexts

\* C3 as stated: a call whose argument refers to a variable defined as a
\* colour is written as fname(<hex>, <int>%), the hex that of the tone-curved
\* value of the variable.
CexC3 ==
    OfColorVariable =>
        \E h \in Toned :
            /\ h[1] = variables[Item(1).f.argument.s].value
            /\ IsCall(last.repls[1].text, Item(1).f.name, h[2])

\* C3, amended: such a call is written as fname(@name, <int>%), the function
\* name and the reference unchanged, the tone-curved colour being written
\* on the definition line of the variable; a call whose argument is a hex
\* literal is written as fname(<hex>, <int>%), the hex that of the
\* tone-curved literal.
ThmC3 ==
    /\ OfColorVariable =>
          IsCall(last.repls[1].text, Item(1).f.name, Item(1).f.argument.s)
    /\ SingleCall /\ Item(1).f.argument.k = "rgb" =>
          \E h \in Toned :
              /\ h[1] = Item(1).f.argument
              /\ IsCall(last.repls[1].text, Item(1).f.name, h[2])

\* lighten(@r, 20%) was rewritten with @r defined as a colour
WitC3 ==
    /\ OfColorVariable
    /\ StartsWith(last.repls[1].text, "lighten(@r, ")

\* the line read last held a chained call and was rewritten
ChainedCall ==
    /\ Read
    /\ last.cat = "fun"
    /\ Item(1).f.argument.k = "fun"

\* the colour the innermost argument of the chained call stands for
Innermost ==
    IF Item(1).f.argument.argument.k = "str"
    THEN variables[Item(1).f.argument.argument.s].value
    ELSE Item(1).f.argument.argument

\* C4 as stated: a chained call is written as
\* fname2(fname1(<hex>, <int>%), <int>%), names and nesting kept, the hex that
\* of the tone-curved innermost colour, written as a literal or as a reference.
CexC4 ==
    ChainedCall =>
        \E h \in Toned : \E n \in IntTexts :
            /\ h[1] = Innermost
            /\ IsCall(last.repls[1].text, Item(1).f.name,
                      Item(1).f.argument.name \o "(" \o h[2] \o ", " \o n \o "%)")

(***************************************************************************)
(* C5: the rescale call that changes nothing.                              *)
(***************************************************************************)
\* the k-th rescale call of the line read last has l0 = 0 and l1 = 1
Identity(k) ==
    /\ Item(k).l0.ok /\ Item(k).l0.num = 0
    /\ Item(k).l1.ok /\ Item(k).l1.num = Item(k).l1.den

\* C5: a rescale call with l0 = 0 and l1 = 1 is rewritten to the fixed text
\* scale-hsla(0,1,0,1,0,   1,   0,1) whatever the mapping holds, also with no
\* palette variable defined; no variable is looked up and no optimisation run.
ThmC5 ==
    last.cat = "scale" /\ (\A k \in 1..Len(ScanOf[last.line].items) : Identity(k)) =>
        /\ last.err = ""
        /\ Len(last.repls) = Len(ScanOf[last.line].items)
        /\ \A k \in 1..Len(last.repls) :
              last.repls[k].text = "scale-hsla(0,1,0,1,0,   1,   0,1)"
        /\ last.lk = <<>>
        /\ last.goals = <<>>

\* the identity call was rewritten with none of the palette variables defined
WitC5 ==
    /\ Read
    /\ last.cat = "scale"
    /\ Identity(1)
    /\ DOMAIN variables # {}
    /\ DOMAIN variables \cap {color_names[i] : i \in 1..Len(color_names)} = {}
    /\ Len(outfile) > 0
    /\ EndsWith(outfile[Len(outfile)], "scale-hsla(0,1,0,1,0,   1,   0,1);\n")

(***************************************************************************)
(* C6: references and lookups.                                             *)
(***************************************************************************)
\* C6 as stated: a reference to a variable no definition line has bound yet
\* fails, and a reference to a variable already bound resolves.
CexC6 ==
    last.line # "" =>
        \A n \in LineOf[last.line].refs :
            IF n \in DOMAIN last.before THEN last.err = "" ELSE last.err = "KeyError"

\* C6, amended: a variable is looked up only where a call is re-fitted (its
\* argument, followed through references and a nested call) or the palette
\* of a rescale call is read.  Such a lookup of a name that no definition
\* line has bound raises KeyError, which ends the run; a lookup of a bound
\* name returns exactly the value of the latest definition line of that name.
\* A reference that is itself the definition of a variable, or stands in
\* other text, is not looked up and is written as it is, bound or not.
ThmC6 ==
    /\ \A i \in 1..Len(last.lk) :
          /\ last.lk[i].hit = (last.lk[i].name \in DOMAIN defined)
          /\ last.lk[i].hit => last.lk[i].value = LineOf[defined[last.lk[i].name]].value
          /\ ~last.lk[i].hit =>
                /\ i = Len(last.lk)
                /\ last.err = "KeyError"
                /\ pc = "crashed"
    /\ (last.cat = "hex" \/ (last.cat = "def" /\ LineOf[last.line].value.k = "str")) =>
          /\ last.lk = <<>>
          /\ last.err # "KeyError"
          /\ last.cat = "hex" /\ last.err = "" =>
                last.text = Rebuilt(last.line, last.repls, 1, 1)
          /\ last.cat = "def" =>
                last.text = LineOf[last.line].def.name \o ": "
                            \o LineOf[last.line].def.definition \o ";\n"

\* a call was re-fitted through a lookup of a variable defined twice
WitC6 ==
    /\ Read
    /\ Len(last.lk) > 0
    /\ last.lk[1].hit
    /\ StartsWith(defined[last.lk[1].name], " @r")

(***************************************************************************)
(* C7: what a failure does to the run.                                     *)
(***************************************************************************)
\* C7 as stated: a failure on a line does not end the run; the line is
\* written as it was read and the lines after it are processed.
CexC7 ==
    last.err # "" =>
        /\ pc \in {"running", "done"}
        /\ Len(outfile) > 0 => outfile[Len(outfile)] = last.line

\* C7, amended: only the failed lookup of a colour name, while a definition
\* is parsed, is caught: the name is kept as it is and the line written.
\* Any other exception raised on a line, the KeyError of an undefined
\* variable among them, is not caught and ends the run there: the line is
\* not written, no later line is read, and the lines written before stay
\* written.
ThmC7 ==
    [][/\ pc = "running"
       /\ nlines' = nlines + 1 =>
             /\ last'.err = "" =>
                   /\ pc' = "running"
                   /\ outfile' = Append(outfile, last'.text)
             /\ last'.err \notin {"", "loop"} =>
                   /\ pc' = "crashed"
                   /\ outfile' = outfile
             /\ last'.cat = "def" /\ LineOf[last'.line].unknown =>
                   /\ last'.err = ""
                   /\ last'.text = LineOf[last'.line].def.name \o ": "
                                   \o LineOf[last'.line].def.definition \o ";\n"]_vars

\* the run ended on a KeyError after a line had been written
WitC7 ==
    /\ pc = "crashed"
    /\ last.err = "KeyError"
    /\ Len(outfile) > 0

(***************************************************************************)
(* C8: how the mapping changes.                                            *)
(***************************************************************************)
\* C8 as stated: a binding, once made, is never changed or removed.
CexC8 ==
    [][\A n \in DOMAIN variables :
          n \in DOMAIN variables' /\ variables'[n] = variables[n]]_vars

\* C8, amended: the mapping is empty at the start and is not cleared between
\* files; a name, once bound, is never removed, and its binding changes only
\* when a later definition line of the same name is read, which replaces it.
ThmC8 ==
    /\ variables = <<>>
    /\ [][/\ \A n \in DOMAIN variables :
                /\ n \in DOMAIN variables'
                /\ variables'[n] # variables[n] =>
                      /\ nlines' = nlines + 1
                      /\ last'.cat = "def"
                      /\ LineOf[last'.line].def.name = n
          /\ nlines' = nlines => variables' = variables]_vars

\* a definition line has replaced the binding of its name
WitC8 ==
    /\ last.cat = "def"
    /\ LineOf[last.line].def.name \in DOMAIN last.before
    /\ LineOf[last.line].def.name \in DOMAIN variables
    /\ variables[LineOf[last.line].def.name] # last.before[LineOf[last.line].def.name]

(***************************************************************************)
(* C9: references from variable to variable.                               *)
(***************************************************************************)
\* C9 as stated: whatever definition lines were read, the loop that replaces
\* a name by the value bound to it, as long as that value is a string, ends:
\* the references held in the mapping form no cycle.
CexC9 == pc # "hung"

(***************************************************************************)
(* C10: what is stored, and what the goals are computed from.              *)
(***************************************************************************)
\* the colour a call's argument, a reference to variable n, resolves to
Resolved(n) ==
    IF variables[n].value.k = "fun"
    THEN Apply(variables[n].value.name,
               variables[variables[n].value.argument.s].value,
               PyInt(variables[n].value.value).v)
    ELSE variables[n].value

\* C10: what the mapping holds for a name is the colour or the call its
\* definition line gave, not the retouched colour and not the re-fitted
\* percentage that line was written with; a later call that refers to the
\* variable, directly or through the call the variable is defined as, has its
\* goal computed from that colour and that percentage.
ThmC10 ==
    /\ DOMAIN variables = DOMAIN defined
    /\ \A n \in DOMAIN variables :
          /\ variables[n].name = n
          /\ variables[n].value = LineOf[defined[n]].value
    /\ (/\ SingleCall
        /\ Item(1).f.argument.k = "str"
        /\ variables[Item(1).f.argument.s].value.k \in {"rgb", "fun"}) =>
          /\ Len(last.goals) = 1
          /\ last.goals[1].arg = Resolved(Item(1).f.argument.s)
          /\ last.goals[1].arg_t = t_rgb(last.goals[1].arg)
          /\ last.goals[1].res_t_goal =
                t_rgb(Apply(Item(1).f.name, last.goals[1].arg, PyInt(Item(1).f.value).v))

\* a call was re-fitted whose argument is a variable defined as a call, after
\* that definition line had been written with its re-fitted percentage
WitC10 ==
    /\ SingleCall
    /\ Item(1).f.argument.k = "str"
    /\ variables[Item(1).f.argument.s].value.k = "fun"
    /\ last.goals[1].arg = lighten(RGB(255, 0, 0), -10)
====
